---- MODULE Spec2Model ----
(***************************************************************************)
(* Sparse_Matrix (src/sparse_matrix.py): a dictionary-backed sparse        *)
(* matrix with indexed access, resize and arithmetic operators.            *)
(*                                                                         *)
(* A Sparse_Matrix object is a record [rows, cols, matrix].  The Python    *)
(* dict self.matrix keeps insertion order, and the code depends on it      *)
(* (the stale loop variable of __call__, the stable sort of __iter__), so  *)
(* it is a sequence of <<row, col, value>> entries in insertion order      *)
(* with unique keys.  A Python value is a record [t, v]: its type and its  *)
(* numeric value; stored values are bare integers because every path into  *)
(* the dict goes through a `type(x) is (int or float)` test.               *)
(***************************************************************************)
EXTENDS Integers, Sequences, FiniteSets, TLC

\* ---------------------------------------------------------------- bounds
MaxCells == 4
MaxVal == 1
MaxSeed == 2
MaxPow == 2

VARIABLES heap, result, last
vars == <<heap, result, last>>

\* ------------------------------------------------------- Python values
PyInt(n) == [t |-> "int", v |-> n]
PyFloat(n) == [t |-> "float", v |-> n]

\* `type(x) is (int or float)`: the operand (int or float) evaluates to int
TypeIsIntOrFloat(x) == x.t = "int"

None == [t |-> "None"]

\* --------------------------------------------------- dict (self.matrix)
KeyOf(e) == <<e[1], e[2]>>

\* row_col in self.matrix
HasKey(d, k) == \E i \in 1..Len(d) : KeyOf(d[i]) = k

\* self.matrix[row_col], for a key that is present
DictGet(d, k) == d[CHOOSE i \in 1..Len(d) : KeyOf(d[i]) = k][3]

\* self.matrix.pop(row_col)
DictPop(d, k) == SelectSeq(d, LAMBDA e : KeyOf(e) # k)

\* self.matrix[row_col] = value: an existing key keeps its position,
\* a new key goes last
DictSet(d, k, v) ==
    IF HasKey(d, k)
    THEN [i \in 1..Len(d) |-> IF KeyOf(d[i]) = k THEN <<k[1], k[2], v>> ELSE d[i]]
    ELSE Append(d, <<k[1], k[2], v>>)

\* the record of a call: the method, the name it was called through, its
\* arguments, the exception it raised, the receiver as it was before the
\* call, and the value it returned (c is the outcome of the call)
Call(op, via, args, pre, c) ==
    [op |-> op, via |-> via, args |-> args, exc |-> c.exc, pre |-> pre, ret |-> c.ret]

\* outcome of a call: the exception raised ("none" when it returns), the
\* receiver after the call, and the value returned
Raise(e, obj) == [exc |-> e, obj |-> obj, ret |-> None]
Return(obj, ret) == [exc |-> "none", obj |-> obj, ret |-> ret]

\* ------------------------------------------------------------ __init__
\* InitLoop without `if tup[2] != 0`: a zero seed value is stored
RECURSIVE InitLoop_storeZero(_, _, _, _, _)
InitLoop_storeZero(rows, cols, triples, i, matrix_dict) ==
    IF i > Len(triples)
    THEN Return([rows |-> rows, cols |-> cols, matrix |-> matrix_dict], None)
    ELSE LET tup == triples[i] IN
         IF ~((-1 < tup[1] /\ tup[1] < rows) /\ (-1 < tup[2] /\ tup[2] < cols))
         THEN Raise("AssertionError", None)
         ELSE IF HasKey(matrix_dict, <<tup[1], tup[2]>>)
         THEN Raise("AssertionError", None)
         ELSE IF ~TypeIsIntOrFloat(tup[3])
         THEN Raise("AssertionError", None)
         ELSE InitLoop_storeZero(rows, cols, triples, i + 1,
                                 DictSet(matrix_dict, <<tup[1], tup[2]>>, tup[3].v))

RECURSIVE InitLoop(_, _, _, _, _)
InitLoop(rows, cols, triples, i, matrix_dict) ==
    IF i > Len(triples)
    THEN Return([rows |-> rows, cols |-> cols, matrix |-> matrix_dict], None)
    ELSE LET tup == triples[i] IN
         IF ~((-1 < tup[1] /\ tup[1] < rows) /\ (-1 < tup[2] /\ tup[2] < cols))
         THEN Raise("AssertionError", None)
         ELSE IF HasKey(matrix_dict, <<tup[1], tup[2]>>)
         THEN Raise("AssertionError", None)
         ELSE IF ~TypeIsIntOrFloat(tup[3])
         THEN Raise("AssertionError", None)
         ELSE InitLoop(rows, cols, triples, i + 1,
                       IF tup[3].v # 0
                       THEN DictSet(matrix_dict, <<tup[1], tup[2]>>, tup[3].v)
                       ELSE matrix_dict)

\* Sparse_Matrix(rows, cols, *matrix); matrix is a sequence of
\* <<row, col, value>> with value a Python value
Sparse_Matrix(rows, cols, triples) ==
    IF ~(rows > 0) THEN Raise("AssertionError", None)
    ELSE IF ~(cols > 0) THEN Raise("AssertionError", None)
    ELSE InitLoop(rows, cols, triples, 1, <<>>)

\* ------------------------------------------------- size, len, bool
size(self) == <<self.rows, self.cols>>

__len__(self) == self.rows * self.cols

__bool__(self) == IF Len(self.matrix) # 0 THEN TRUE ELSE FALSE

\* ------------------------------------------------ indexed access
\* the row/column range tests shared by __getitem__, __setitem__, __delitem__
BadIndex(self, row_col) ==
    \/ (row_col[1] < 0) \/ (row_col[1] > self.rows - 1)
    \/ (row_col[2] < 0) \/ (row_col[2] > self.cols - 1)

__getitem__(self, row_col) ==
    IF BadIndex(self, row_col) THEN Raise("TypeError", self)
    ELSE IF ~HasKey(self.matrix, row_col) THEN Return(self, 0)
    ELSE Return(self, DictGet(self.matrix, row_col))

\* __setitem__ without the pop: assigning zero leaves a stored entry alone
setitem_keepOnZero(self, row_col, value) ==
    IF BadIndex(self, row_col) THEN Raise("TypeError", self)
    ELSE IF ~TypeIsIntOrFloat(value) THEN Raise("TypeError", self)
    ELSE IF value.v # 0
    THEN Return([self EXCEPT !.matrix = DictSet(self.matrix, row_col, value.v)], None)
    ELSE Return(self, None)

__setitem__(self, row_col, value) ==
    IF BadIndex(self, row_col) THEN Raise("TypeError", self)
    ELSE IF ~TypeIsIntOrFloat(value) THEN Raise("TypeError", self)
    ELSE IF (value.v = 0) /\ HasKey(self.matrix, row_col)
    THEN Return([self EXCEPT !.matrix = DictPop(self.matrix, row_col)], None)
    ELSE IF value.v # 0
    THEN Return([self EXCEPT !.matrix = DictSet(self.matrix, row_col, value.v)], None)
    ELSE Return(self, None)

__delitem__(self, row_col) ==
    IF BadIndex(self, row_col) THEN Raise("TypeError", self)
    ELSE IF HasKey(self.matrix, row_col)
    THEN Return([self EXCEPT !.matrix = DictPop(self.matrix, row_col)], None)
    ELSE Return(self, None)

\* ---------------------------------------------------------- row, col
row(self, r) == [i \in 1..self.cols |->
                    IF ~HasKey(self.matrix, <<r, i - 1>>) THEN 0
                    ELSE DictGet(self.matrix, <<r, i - 1>>)]

col(self, c) == [i \in 1..self.rows |->
                    IF ~HasKey(self.matrix, <<i - 1, c>>) THEN 0
                    ELSE DictGet(self.matrix, <<i - 1, c>>)]

\* ------------------------------------------------- __call__ (resize)
\* a run of self.__delitem__(key) calls; the first one that raises ends it
RECURSIVE DelAll(_, _, _)
DelAll(self, keys, i) ==
    IF i > Len(keys) THEN Return(self, None)
    ELSE LET d == __delitem__(self, keys[i]) IN
         IF d.exc # "none" THEN d ELSE DelAll(d.obj, keys, i + 1)

\* the body of `for k1 in matrix_copy.keys()`; k is the variable the copying
\* loop left behind: the last key of the dict as it was on entry
RECURSIVE CallLoop(_, _, _, _, _, _)
CallLoop(self, matrix_copy, j, k, new_rows, new_cols) ==
    IF j > Len(matrix_copy) THEN Return(self, None)
    ELSE LET k1 == KeyOf(matrix_copy[j])
             byRow == IF k1[1] >= new_rows
                      THEN DelAll(self, [c \in 1..self.cols |-> <<k1[1], c - 1>>], 1)
                      ELSE Return(self, None)
         IN  IF byRow.exc # "none" THEN byRow
             ELSE LET byCol == IF k1[2] >= new_cols
                               THEN DelAll(byRow.obj,
                                           [r \in 1..self.rows |-> <<r - 1, k[2]>>], 1)
                               ELSE Return(byRow.obj, None)
                  IN  IF byCol.exc # "none" THEN byCol
                      ELSE CallLoop(byCol.obj, matrix_copy, j + 1, k, new_rows, new_cols)

__call__(self, new_rows, new_cols) ==
    IF ~(new_rows > 0) THEN Raise("AssertionError", self)
    ELSE IF ~(new_cols > 0) THEN Raise("AssertionError", self)
    ELSE LET matrix_copy == self.matrix
             k == IF Len(self.matrix) = 0 THEN <<0, 0>>
                  ELSE KeyOf(self.matrix[Len(self.matrix)])
             pruned == CallLoop(self, matrix_copy, 1, k, new_rows, new_cols)
         IN  IF pruned.exc # "none" THEN pruned
             ELSE Return([pruned.obj EXCEPT !.rows = new_rows, !.cols = new_cols], None)

\* ------------------------------------------------------------ __iter__
\* sorted(self.matrix.items(), key = lambda x: (x[1])): a stable sort of the
\* items by their value
\* sorted with key = lambda x: x[0][1]: the items by their column
RECURSIVE sorted_byColumn(_, _)
sorted_byColumn(items, n) ==
    IF n = 0 THEN <<>>
    ELSE LET acc == sorted_byColumn(items, n - 1)
             e == items[n]
             p == Cardinality({i \in 1..Len(acc) : acc[i][2] <= e[2]})
         IN  SubSeq(acc, 1, p) \o <<e>> \o SubSeq(acc, p + 1, Len(acc))

RECURSIVE sorted(_, _)
sorted(items, n) ==
    IF n = 0 THEN <<>>
    ELSE LET acc == sorted(items, n - 1)
             e == items[n]
             p == Cardinality({i \in 1..Len(acc) : acc[i][3] <= e[3]})
         IN  SubSeq(acc, 1, p) \o <<e>> \o SubSeq(acc, p + 1, Len(acc))

__iter__(self) == sorted(self.matrix, Len(self.matrix))

\* ---------------------------------------------------------- arithmetic
\* a Sparse_Matrix as a Python value; id tells whether the reference is to
\* the receiver itself or to an instance the call has constructed
SelfRef(obj) == [t |-> "Sparse_Matrix", id |-> "self", v |-> obj]
NewRef(obj) == [t |-> "Sparse_Matrix", id |-> "new", v |-> obj]

\* `return Sparse_Matrix(...)` inside a method of self
Construct(self, rows, cols, triples) ==
    LET c == Sparse_Matrix(rows, cols, triples)
    IN  IF c.exc # "none" THEN Raise(c.exc, self) ELSE Return(self, NewRef(c.obj))

Abs(n) == IF n < 0 THEN -n ELSE n

__pos__(self) ==
    Construct(self, self.rows, self.cols,
              [i \in 1..Len(self.matrix) |->
                  <<self.matrix[i][1], self.matrix[i][2], PyInt(self.matrix[i][3])>>])

__neg__(self) ==
    Construct(self, self.rows, self.cols,
              [i \in 1..Len(self.matrix) |->
                  <<self.matrix[i][1], self.matrix[i][2], PyInt(-self.matrix[i][3])>>])

__abs__(self) ==
    Construct(self, self.rows, self.cols,
              [i \in 1..Len(self.matrix) |->
                  <<self.matrix[i][1], self.matrix[i][2], PyInt(Abs(self.matrix[i][3]))>>])

__add__(self, right) ==
    IF right.t = "Sparse_Matrix"
    THEN IF size(self) # size(right.v) THEN Raise("AssertionError", self)
         ELSE IF \E i \in 1..Len(self.matrix) :
                    __getitem__(right.v, KeyOf(self.matrix[i])).exc # "none"
         THEN Raise("TypeError", self)
         ELSE Construct(self, self.rows, self.cols,
                        [i \in 1..Len(self.matrix) |->
                            <<self.matrix[i][1], self.matrix[i][2],
                              PyInt(self.matrix[i][3]
                                    + __getitem__(right.v, KeyOf(self.matrix[i])).ret)>>])
    ELSE IF TypeIsIntOrFloat(right)
    THEN Construct(self, self.rows, self.cols,
                   [i \in 1..Len(self.matrix) |->
                       <<self.matrix[i][1], self.matrix[i][2],
                         PyInt(self.matrix[i][3] + right.v)>>])
    ELSE Raise("TypeError", self)

__sub__(self, right) ==
    IF right.t = "Sparse_Matrix"
    THEN IF size(self) # size(right.v) THEN Raise("AssertionError", self)
         ELSE LET n == __neg__(right.v)
              IN  IF n.exc # "none" THEN Raise(n.exc, self)
                  ELSE __add__(self, n.ret)
    ELSE IF TypeIsIntOrFloat(right)
    THEN __add__(self, PyInt(-right.v))
    ELSE Raise("TypeError", self)

\* value = 0; for i in range(self.cols): value += self.row(r)[i] * right.col(c)[i]
\* Dot with `value = ...` in place of `value += ...`: the last term only
Dot_lastTerm(a, b, n) == IF n = 0 THEN 0 ELSE a[n] * b[n]

RECURSIVE Dot(_, _, _)
Dot(a, b, n) == IF n = 0 THEN 0 ELSE Dot(a, b, n - 1) + a[n] * b[n]

__mul__(self, right) ==
    IF right.t = "Sparse_Matrix"
    THEN IF self.cols # right.v.rows THEN Raise("AssertionError", self)
         ELSE Construct(self, self.rows, right.v.cols,
                        [j \in 1..(self.rows * right.v.cols) |->
                            LET r == (j - 1) \div right.v.cols
                                c == (j - 1) % right.v.cols
                            IN  <<r, c, PyInt(Dot(row(self, r), col(right.v, c), self.cols))>>])
    ELSE IF TypeIsIntOrFloat(right)
    THEN Construct(self, self.rows, self.cols,
                   [i \in 1..Len(self.matrix) |->
                       <<self.matrix[i][1], self.matrix[i][2],
                         PyInt(self.matrix[i][3] * right.v)>>])
    ELSE Raise("TypeError", self)

\* pow_mat = self; for __ in range(1, right): pow_mat = pow_mat.__mul__(self)
RECURSIVE PowLoop(_, _, _)
PowLoop(self, pow_mat, n) ==
    IF n = 0 THEN Return(self, pow_mat)
    ELSE LET power == __mul__(pow_mat.v, SelfRef(self))
         IN  IF power.exc # "none" THEN Raise(power.exc, self)
             ELSE PowLoop(self, power.ret, n - 1)

__pow__(self, right) ==
    IF right.t = "int"
    THEN IF ~(right.v > 0) THEN Raise("AssertionError", self)
         ELSE IF self.rows # self.cols THEN Raise("AssertionError", self)
         ELSE PowLoop(self, SelfRef(self), right.v - 1)
    ELSE Raise("TypeError", self)

\* details().split(' -> ')[2]: the text of the tuple of all dense rows; two
\* such texts of integer rows are equal exactly when the tuples are
AllRows(self) == [i \in 1..self.rows |-> row(self, i - 1)]

__eq__(self, right) ==
    IF right.t = "Sparse_Matrix"
    THEN Return(self, (size(right.v) = size(self)) /\ (AllRows(right.v) = AllRows(self)))
    ELSE IF TypeIsIntOrFloat(right)
    THEN IF right.v = 0 /\ __bool__(self) = FALSE THEN Return(self, TRUE)
         ELSE IF right.v # 0
                 /\ Cardinality({i \in 1..Len(self.matrix) : self.matrix[i][3] = right.v})
                    = __len__(self)
         THEN Return(self, TRUE)
         ELSE Return(self, FALSE)
    ELSE Return(self, FALSE)

\* ----------------------------------------------------------- inputs
\* stored and scalar values: zero and the two integers of magnitude MaxVal
Vals == {-MaxVal, 0, MaxVal}
PyVals == {PyInt(n) : n \in Vals} \cup {PyFloat(1)}

\* the shapes of at most MaxCells cells
Shapes == {rc \in (1..MaxCells) \X (1..MaxCells) : rc[1] * rc[2] <= MaxCells}

\* every cell of every shape (past the last row or column of a smaller
\* one), a negative row and a negative column
Cells == {<<rc[1] - 1, rc[2] - 1>> : rc \in Shapes}
Indexes == Cells \cup {<<-1, 0>>, <<0, -1>>}

\* every valid size, and one that fails each of the two assertions
Sizes == Shapes \cup {<<0, 1>>, <<1, 0>>}

RECURSIVE SeqsUpTo(_, _)
SeqsUpTo(S, n) ==
    IF n = 0 THEN {<<>>}
    ELSE LET shorter == SeqsUpTo(S, n - 1)
         IN  shorter \cup {Append(s, x) : s \in shorter, x \in S}

Triples == {<<rc[1], rc[2], v>> : rc \in Cells, v \in PyVals}

\* the seed lists of at most n triples, their cells in row-major order
RowMajor(s) ==
    \A i \in 1..(Len(s) - 1) :
        IF s[i][1] = s[i + 1][1] THEN s[i][2] < s[i + 1][2] ELSE s[i][1] < s[i + 1][1]

Seeds(n) == {s \in SeqsUpTo(Triples, n) : RowMajor(s)}

\* the matrices Sparse_Matrix(rows, cols, *seed) constructs
Constructed ==
    {Sparse_Matrix(x[1][1], x[1][2], x[2]).obj :
        x \in {y \in Shapes \X Seeds(MaxSeed) :
                  Sparse_Matrix(y[1][1], y[1][2], y[2]).exc = "none"}}

\* right operands of the binary operators: a scalar or another matrix
Operands == PyVals \cup {NewRef(o) : o \in Constructed}

Exponents == {PyInt(n) : n \in 0..MaxPow} \cup {PyFloat(1)}

\* ------------------------------------------------------------ state
\* heap: the live Sparse_Matrix instances by identity.  1 is the matrix m
\* the program constructed, 2 the matrix passed as right operand, 3 an
\* instance an operator constructed.  result: the identity bound to x by
\* `x = m <op> right`, 0 when x is unbound.  last: the call the run is
\* observed at (Call): the construction, then the one call the program
\* makes after its unobserved set, delete and resize calls.
Init ==
    \E rc \in Shapes, s \in Seeds(MaxSeed) :
        LET r == rc[1]
            c == rc[2]
            made == Sparse_Matrix(r, c, s)
        IN  /\ made.exc = "none"
            /\ heap = (1 :> made.obj)
            /\ result = 0
            /\ last = Call("init", "m", <<r, c>>, None, made)

\* the instance a call through the name via ("m" or "x") acts on
Target(via) == IF via = "m" THEN 1 ELSE result

\* a call through m ends the statement that bound x and releases its
\* temporaries; a call through x keeps every instance alive
Mutated(via, obj) ==
    /\ heap' = IF via = "m" THEN (1 :> obj) ELSE [heap EXCEPT ![result] = obj]
    /\ result' = IF via = "m" THEN 0 ELSE result

\* a set, delete or resize call is observed (last records it, with the
\* object as it was before) or is one of the calls that lead up to the
\* observed one (last records nothing)
Unobserved ==
    [op |-> "none", via |-> "m", args |-> <<>>, exc |-> "none", pre |-> None, ret |-> None]

Observe(observed, call) == last' = IF observed THEN call ELSE Unobserved

SetItem(via, row_col, value, observed) ==
    /\ Target(via) \in DOMAIN heap
    /\ LET self == heap[Target(via)]
           c == __setitem__(self, row_col, value)
       IN  /\ Mutated(via, c.obj)
           /\ Observe(observed, Call("setitem", via, <<row_col, value>>, self, c))

DelItem(via, row_col, observed) ==
    /\ Target(via) \in DOMAIN heap
    /\ LET self == heap[Target(via)]
           c == __delitem__(self, row_col)
       IN  /\ Mutated(via, c.obj)
           /\ Observe(observed, Call("delitem", via, <<row_col>>, self, c))

Resize(via, new_rows, new_cols, observed) ==
    /\ Target(via) \in DOMAIN heap
    /\ LET self == heap[Target(via)]
           c == __call__(self, new_rows, new_cols)
       IN  /\ Mutated(via, c.obj)
           /\ Observe(observed, Call("call", via, <<new_rows, new_cols>>, self, c))

\* queries on m
GetItem(row_col) ==
    /\ last' = Call("getitem", "m", <<row_col>>, heap[1], __getitem__(heap[1], row_col))
    /\ Mutated("m", heap[1])

Iter ==
    /\ last' = Call("iter", "m", <<>>, heap[1], Return(heap[1], __iter__(heap[1])))
    /\ Mutated("m", heap[1])

Bool ==
    /\ last' = Call("bool", "m", <<>>, heap[1], Return(heap[1], __bool__(heap[1])))
    /\ Mutated("m", heap[1])

Eq(right) ==
    /\ last' = Call("eq", "m", <<right>>, heap[1], __eq__(heap[1], right))
    /\ Mutated("m", heap[1])

\* x = m <op> right: the operator's outcome c binds x to m itself, to a new
\* instance, or (an exception) to nothing
Bind(op, args, c) ==
    /\ last' = Call(op, "m", args, heap[1], c)
    /\ heap' = (1 :> c.obj)
               @@ (IF Len(args) = 1 /\ args[1].t = "Sparse_Matrix" /\ args[1].id = "new"
                   THEN (2 :> args[1].v) ELSE <<>>)
               @@ (IF c.exc = "none" /\ c.ret.id = "new" THEN (3 :> c.ret.v) ELSE <<>>)
    /\ result' = IF c.exc # "none" THEN 0 ELSE IF c.ret.id = "self" THEN 1 ELSE 3

Pos == Bind("pos", <<>>, __pos__(heap[1]))
Neg == Bind("neg", <<>>, __neg__(heap[1]))
AbsOp == Bind("abs", <<>>, __abs__(heap[1]))
Add(right) == Bind("add", <<right>>, __add__(heap[1], right))
Sub(right) == Bind("sub", <<right>>, __sub__(heap[1], right))
Mul(right) == Bind("mul", <<right>>, __mul__(heap[1], right))
Pow(right) == Bind("pow", <<right>>, __pow__(heap[1], right))

\* ---------------------------------------------------- specifications
ArithOps == {"pos", "neg", "abs", "add", "sub", "mul", "pow"}
MutOps == {"setitem", "delitem", "call"}

\* Spec: the program constructs m, makes any number of set, delete and
\* resize calls on it and then one more call, the observed one: a set,
\* delete, resize, query or operator call.  The binary operators take a
\* scalar or m itself (m + 1, m + m).
Mutable == last.op \in {"init", "none"}

\* m[row_col] = value leaves the dict of m with at most MaxSeed entries
Room(row_col, value) ==
    Len(__setitem__(heap[1], row_col, value).obj.matrix) <= MaxSeed

Next ==
    \/ Mutable /\ \E rc \in Indexes, v \in PyVals, o \in BOOLEAN :
                      Room(rc, v) /\ SetItem("m", rc, v, o)
    \/ Mutable /\ \E rc \in Indexes, o \in BOOLEAN : DelItem("m", rc, o)
    \/ Mutable /\ \E sz \in Sizes, o \in BOOLEAN : Resize("m", sz[1], sz[2], o)
    \/ Mutable /\ \E rc \in Indexes : GetItem(rc)
    \/ Mutable /\ Iter
    \/ Mutable /\ Bool
    \/ Mutable /\ \E s \in PyVals : Eq(s)
    \/ Mutable /\ Pos
    \/ Mutable /\ Neg
    \/ Mutable /\ AbsOp
    \/ Mutable /\ \E right \in PyVals \cup {SelfRef(heap[1])} : Add(right)
    \/ Mutable /\ \E right \in PyVals \cup {SelfRef(heap[1])} : Sub(right)
    \/ Mutable /\ \E right \in PyVals \cup {SelfRef(heap[1])} : Mul(right)
    \/ Mutable /\ \E n \in Exponents : Pow(n)

Spec == Init /\ [][Next]_vars

\* SpecArith: the program constructs m, resizes it any number of times and
\* then evaluates one operator on it, with any right operand.  __add__,
\* __sub__ and __mul__ reject a matrix of the wrong shape before they read
\* its entries, so the empty matrix of each wrong shape stands for them.
Fits(op, self, right) ==
    IF right.t # "Sparse_Matrix" THEN TRUE
    ELSE IF right.v.matrix = <<>> THEN TRUE
    ELSE IF op = "mul" THEN self.cols = right.v.rows
    ELSE size(self) = size(right.v)

NextArith ==
    \/ Mutable /\ \E sz \in Sizes : Resize("m", sz[1], sz[2], FALSE)
    \/ Mutable /\ Pos
    \/ Mutable /\ Neg
    \/ Mutable /\ AbsOp
    \/ Mutable /\ \E right \in Operands : Fits("add", heap[1], right) /\ Add(right)
    \/ Mutable /\ \E right \in Operands : Fits("sub", heap[1], right) /\ Sub(right)
    \/ Mutable /\ \E right \in Operands : Fits("mul", heap[1], right) /\ Mul(right)
    \/ Mutable /\ \E n \in Exponents : Pow(n)

SpecArith == Init /\ [][NextArith]_vars

\* SpecResize: the program constructs m, sets at most one cell of it, makes
\* any number of resize calls and is observed at the last of them
NextResize ==
    \/ last.op = "init" /\ \E rc \in Indexes, v \in PyVals : SetItem("m", rc, v, FALSE)
    \/ Mutable /\ \E sz \in Sizes, o \in BOOLEAN : Resize("m", sz[1], sz[2], o)

SpecResize == Init /\ [][NextResize]_vars

\* SpecAlias: the program constructs m, binds x = m <op> right and then
\* makes one set, delete or resize call on x
Bound == last.op \in ArithOps /\ result # 0

NextAlias ==
    \/ last.op = "init" /\ Pos
    \/ last.op = "init" /\ Neg
    \/ last.op = "init" /\ AbsOp
    \/ last.op = "init" /\ \E right \in Operands : Fits("add", heap[1], right) /\ Add(right)
    \/ last.op = "init" /\ \E right \in Operands : Fits("sub", heap[1], right) /\ Sub(right)
    \/ last.op = "init" /\ \E right \in Operands : Fits("mul", heap[1], right) /\ Mul(right)
    \/ last.op = "init" /\ \E n \in Exponents : Pow(n)
    \/ Bound /\ \E rc \in Indexes, v \in PyVals : SetItem("x", rc, v, TRUE)
    \/ Bound /\ \E rc \in Indexes : DelItem("x", rc, TRUE)
    \/ Bound /\ \E sz \in Sizes : Resize("x", sz[1], sz[2], TRUE)

SpecAlias == Init /\ [][NextAlias]_vars

\* ------------------------------------------------------------ claims
m == heap[1]

InRange(self, k) ==
    0 <= k[1] /\ k[1] < self.rows /\ 0 <= k[2] /\ k[2] < self.cols

Entries(self) == {self.matrix[i] : i \in 1..Len(self.matrix)}

\* what get(r, c) reads at an in-range cell
Read(self, k) == __getitem__(self, k).ret

CellsOf(self) == (0..(self.rows - 1)) \X (0..(self.cols - 1))

\* C1: every stored key (r, c) of m satisfies 0 <= r < rows and 0 <= c < cols
C1_KeysInRange ==
    \A e \in Entries(m) : InRange(m, KeyOf(e))

\* C2: a successful resize(newRows, newCols) sets the dimensions to
\* (newRows, newCols) and keeps exactly the entries with r < newRows and
\* c < newCols, each with its value
C2_ResizeDropsExactly ==
    (last.op = "call" /\ last.exc = "none") =>
        /\ m.rows = last.args[1]
        /\ m.cols = last.args[2]
        /\ Entries(m) = {e \in Entries(last.pre) :
                            e[1] < last.args[1] /\ e[2] < last.args[2]}

\* C4: a set, delete or resize call that ends with an error leaves rows,
\* cols and the entries map as they were before the call
C4_FailureLeavesState ==
    (last.op \in MutOps /\ last.exc # "none") => m = last.pre

\* C5: after a successful set(r, c, v), get(r, c) returns v; when v is 0 the
\* key (r, c) is not in the entries map; every other key and cell is as it
\* was before the call
C5_SetThenGet ==
    (last.op = "setitem" /\ last.exc = "none") =>
        LET rc == last.args[1]
            v == last.args[2].v
        IN  /\ __getitem__(m, rc).exc = "none"
            /\ __getitem__(m, rc).ret = v
            /\ (v = 0 => ~HasKey(m.matrix, rc))
            /\ m.rows = last.pre.rows /\ m.cols = last.pre.cols
            /\ {e \in Entries(m) : KeyOf(e) # rc}
                  = {e \in Entries(last.pre) : KeyOf(e) # rc}
            /\ \A k \in CellsOf(m) \ {rc} : Read(m, k) = Read(last.pre, k)

C5_Witness ==
    /\ last.op = "setitem" /\ last.exc = "none"
    /\ last.args[2].v = 0
    /\ HasKey(last.pre.matrix, last.args[1])
    /\ Len(m.matrix) >= 1

\* iterate() yields each stored entry exactly once and nothing else
YieldsStored(self, out) ==
    /\ Len(out) = Len(self.matrix)
    /\ \A e \in Entries(self) : Cardinality({i \in 1..Len(out) : out[i] = e}) = 1

\* C6 (as claimed): iterate() yields each stored entry exactly once, in
\* ascending order of column index
C6_IterByColumn ==
    last.op = "iter" =>
        /\ YieldsStored(m, last.ret)
        /\ \A i \in 1..(Len(last.ret) - 1) : last.ret[i][2] <= last.ret[i + 1][2]

\* C6 (amended): iterate() yields each stored entry exactly once, in
\* ascending order of value
C6_IterByValue ==
    last.op = "iter" =>
        /\ YieldsStored(m, last.ret)
        /\ \A i \in 1..(Len(last.ret) - 1) : last.ret[i][3] <= last.ret[i + 1][3]

C6_Witness ==
    /\ last.op = "iter"
    /\ Len(last.ret) >= 2
    /\ last.ret[1][3] < last.ret[2][3]
    /\ last.ret[1][2] > last.ret[2][2]
    /\ last.ret # m.matrix

\* C8: equals(0) is true exactly when every in-range cell reads zero; for a
\* non-zero integer s, equals(s) is true exactly when every in-range cell
\* reads s
C8_ScalarEquality ==
    (last.op = "eq" /\ last.args[1].t = "int") =>
        (last.ret = (\A k \in CellsOf(m) : Read(m, k) = last.args[1].v))

\* C10: no entries map holds a key whose value is 0
C10_NoStoredZero ==
    \A o \in DOMAIN heap : \A e \in Entries(heap[o]) : e[3] # 0

\* an operator returned a new matrix that stores fewer entries than m: a
\* zero result was dropped
C10_Witness ==
    /\ last.op \in {"add", "sub", "mul"} /\ last.exc = "none"
    /\ result = 3
    /\ Len(heap[3].matrix) < Len(m.matrix)
    /\ Len(heap[3].matrix) >= 1

\* C3: for a and b of the same shape, add(a, b) returns a matrix of that
\* shape whose value at every cell is a.get(r, c) + b.get(r, c), and that
\* stores no zero
C3_AddCellwise ==
    (/\ last.op = "add"
     /\ last.args[1].t = "Sparse_Matrix"
     /\ size(last.args[1].v) = size(last.pre)) =>
        /\ last.exc = "none"
        /\ size(last.ret.v) = size(last.pre)
        /\ \A k \in CellsOf(last.pre) :
              Read(last.ret.v, k) = Read(last.pre, k) + Read(last.args[1].v, k)
        /\ \A e \in Entries(last.ret.v) : e[3] # 0

\* the sum over i in [0, n) of a.get(r, i) * b.get(i, c)
RECURSIVE SumOfProducts(_, _, _, _, _)
SumOfProducts(a, b, r, c, n) ==
    IF n = 0 THEN 0
    ELSE SumOfProducts(a, b, r, c, n - 1)
         + Read(a, <<r, n - 1>>) * Read(b, <<n - 1, c>>)

\* C9: when a.cols = b.rows, multiply(a, b) returns a matrix of shape
\* (a.rows, b.cols) whose value at (r, c) is the sum of a.get(r, i) *
\* b.get(i, c) and that stores no zero; otherwise it fails with the
\* shape-mismatch error and returns no matrix
C9_MatrixProduct ==
    (last.op = "mul" /\ last.args[1].t = "Sparse_Matrix") =>
        LET a == last.pre
            b == last.args[1].v
        IN  IF a.cols = b.rows
            THEN /\ last.exc = "none"
                 /\ size(last.ret.v) = <<a.rows, b.cols>>
                 /\ \A r \in 0..(a.rows - 1), c \in 0..(b.cols - 1) :
                       Read(last.ret.v, <<r, c>>) = SumOfProducts(a, b, r, c, a.cols)
                 /\ \A e \in Entries(last.ret.v) : e[3] # 0
            ELSE /\ last.exc = "AssertionError"
                 /\ last.ret = None
                 /\ result = 0

\* a product of a non-square m in which some cell sums two non-zero terms
\* and is stored
C9_Witness ==
    /\ last.op = "mul" /\ last.args[1].t = "Sparse_Matrix" /\ last.exc = "none"
    /\ LET a == last.pre
           b == last.args[1].v
           terms(r, c) == {i \in 0..(a.cols - 1) :
                              Read(a, <<r, i>>) * Read(b, <<i, c>>) # 0}
       IN  /\ a.rows # a.cols
           /\ \E r \in 0..(a.rows - 1), c \in 0..(b.cols - 1) :
                  Cardinality(terms(r, c)) >= 2 /\ HasKey(last.ret.v.matrix, <<r, c>>)

\* C7: an arithmetic operator leaves m unchanged, and a set, delete or resize
\* call made through x, the matrix the operator returned, changes neither m
\* nor the right operand
C7_OperandsIndependent ==
    [][/\ (last'.op \in ArithOps => heap'[1] = heap[1])
       /\ (last'.via = "x" =>
              /\ heap'[1] = heap[1]
              /\ (2 \in DOMAIN heap => heap'[2] = heap[2]))]_vars

\* C11: a real (floating-point) value is accepted wherever an integer is:
\* the constructor accepts a seed triple with a real value at any in-range
\* cell, a set(r, c, v) with in-range (r, c) and a non-zero real v succeeds
\* and get(r, c) then returns v, and add, subtract, multiply and equals with
\* a real scalar operand end without an error
C11_RealAccepted ==
    /\ (last.op = "init") =>
           \A k \in CellsOf(m) :
               Sparse_Matrix(m.rows, m.cols, <<<<k[1], k[2], PyFloat(1)>>>>).exc = "none"
    /\ (/\ last.op = "setitem"
        /\ last.args[2].t = "float" /\ last.args[2].v # 0
        /\ InRange(last.pre, last.args[1])) =>
           /\ last.exc = "none"
           /\ Read(m, last.args[1]) = last.args[2].v
    /\ (/\ last.op \in {"add", "sub", "mul", "eq"}
        /\ last.args[1].t = "float") =>
           last.exc = "none"

\* C12: isNonZero() is true exactly when some in-range cell of m reads
\* non-zero, in every state reached from construction by set, delete and
\* resize calls; for a matrix constructed without seeds it is false
C12_BoolIffNonZeroCell ==
    last.op = "bool" =>
        (last.ret = (\E k \in CellsOf(m) : Read(m, k) # 0))

====
